---- MODULE Spec2Model ----
(***************************************************************************)
(* The two dashboard widgets of WayneXuCN/glance-custom:                   *)
(*   randomFactWidget  (src/internal/glance/widget-random-fact.go)         *)
(*   weiboWidget       (src/unnamed/part_000)                              *)
(* A behaviour follows one widget instance (inst) from its configuration   *)
(* through initialize and then any sequence of update and Render calls.    *)
(* Widget instances share no state, so one behaviour follows one instance. *)
(* An update is split where the code blocks on the network: one step up to *)
(* client.Do, one step per reply, and one step for the statements after    *)
(* the cached data has been assigned.                                      *)
(*                                                                         *)
(* Strings the code only compares are TLA+ strings. Strings the code takes *)
(* apart (Model, WordScheme, Source, URL) are sequences of characters.     *)
(* A nil pointer or nil error is the empty sequence / the empty string.    *)
(***************************************************************************)
EXTENDS Integers, Sequences, FiniteSets, TLC

VARIABLES
    inst,              \* which widget this instance is: "fact" or "weibo"
    pc,                \* position of the instance: "new", "idle", or inside update
    now,               \* the wall clock, in hours
    net,               \* requests in flight (a set of request kinds)
    ctx,               \* context passed to the running update: "none", "live", "cancelled"
    \* widgetBase (host fields the widgets write)
    Title, ContentAvailable, Error, CustomCacheDuration, cacheDuration,
    earlyUpdates,      \* scheduleEarlyUpdate calls made by the current/last update
    nextUpdates,       \* scheduleNextUpdate calls made by the current/last update
    \* randomFactWidget
    APIKey, Model, APIURL, CachedData, lastUpdate, rawFact,
    \* weiboWidget
    ShowCount, Limit, Category, RefreshInterval, HotSearches, LastUpdated,
    \* history of the calls, for stating the properties
    callNo,            \* number of update calls made so far
    cur,               \* what the current/last update call did
    dataGen,           \* callNo of the update that assigned the cached data
    tsGen,             \* callNo of the update that assigned the timestamp
    rendered           \* result of Render, when Render was the last operation

vars == <<inst, pc, now, net, ctx, Title, ContentAvailable, Error,
          CustomCacheDuration, cacheDuration, earlyUpdates, nextUpdates,
          APIKey, Model, APIURL, CachedData, lastUpdate, rawFact,
          ShowCount, Limit, Category, RefreshInterval, HotSearches, LastUpdated,
          callNo, cur, dataGen, tsGen, rendered>>

baseVars  == <<Title, ContentAvailable, Error, CustomCacheDuration, cacheDuration>>
factCfg   == <<APIKey, Model, APIURL>>
weiboCfg  == <<ShowCount, Limit, Category, RefreshInterval>>
factData  == <<CachedData, lastUpdate>>
weiboData == <<HotSearches, LastUpdated>>

----------------------------------------------------------------------------
(* Bounds of the model *)

MaxTime == 2
MaxUpdates == 2
MaxModelLen == 2
MaxItems == 2
MaxConfigured == 52

(* Program constants *)

defaultFactCacheDuration == 2
DefaultShowCount == 10
MaxShowCount == 50
DefaultRefreshInterval == 30

Min(a, b) == IF a < b THEN a ELSE b

RECURSIVE SeqsUpTo(_, _)
SeqsUpTo(S, n) ==
    IF n = 0 THEN {<<>>}
    ELSE LET shorter == SeqsUpTo(S, n - 1)
         IN  shorter \cup {Append(s, x) : s \in shorter, x \in S}

----------------------------------------------------------------------------
(* Input domains *)

ModelChars == {"q", "/"}
ModelVals == SeqsUpTo(ModelChars, MaxModelLen)
KeyVals == {"", "sk-key"}
URLVals == {"", "https://ai/v1"}
CacheDurationVals == {0, 1}
\* configurations of the fact widget: every model identifier with AI rewriting
\* configured, and every way of leaving it unconfigured
FactConfigs ==
    {c \in [APIKey : KeyVals, Model : ModelVals, APIURL : URLVals] :
        \/ c.APIKey # "" /\ c.Model # <<>> /\ c.APIURL # ""
        \/ c.Model \in {<<>>, <<"q">>}}

\* facts the trivia endpoint may return
Facts == {[ID |-> "id1", Text |-> "text1"], [ID |-> "id2", Text |-> "text2"]}
\* what the completion endpoint may return as the first choice for a text
Rewritten(text) == IF text = "text1" THEN "rewritten1" ELSE "rewritten2"
AIContents(text) == {Rewritten(text)}

\* configurations of the hot-search widget
LimitVals == {0, 2}
ShowCountVals == {0, 3}
CategoryVals == {"", "A"}
IntervalVals == {0, 45}
\* the configured counts initialize is checked over
ConfiguredCounts == (0 - 2)..MaxConfigured

\* entries the hot-search endpoint may return
ItemX == [Word |-> "x", LabelName |-> "A", WordScheme |-> <<"#", "a", "#">>]
ItemY == [Word |-> "y", LabelName |-> "a", WordScheme |-> <<"a", " ", "a">>]
ItemNoWord == [Word |-> "", LabelName |-> "A", WordScheme |-> <<>>]
WeiboItems == {ItemX, ItemY, ItemNoWord}
\* every payload with up to MaxItems entries of each kind
Payloads ==
    [realtime : SeqsUpTo(WeiboItems, MaxItems), hotgovs : SeqsUpTo(WeiboItems, MaxItems)]
\* the payloads used where the life of the widget is followed over several updates
SamplePayloads ==
    { [realtime |-> <<>>, hotgovs |-> <<>>],
      [realtime |-> <<ItemY>>, hotgovs |-> <<ItemX>>],
      [realtime |-> <<ItemX, ItemNoWord, ItemY>>, hotgovs |-> <<ItemY, ItemX>>] }

\* failures of fetchRawFact, as the error it returns
FactFetchErrors == {"request failed", "status code", "decode error"}
\* failures of processWithAI
AIErrors == {"request failed", "status code", "decode error", "api error", "no choices"}
\* failures of fetchWeiboHotSearch
WeiboFetchErrors == {"request failed", "status code", "read body", "decode error", "ok flag"}
\* the failures left when the request's context is cancelled
CancelErrors == {"request failed", "read body"}

\* the history of one update call: when it started, the requests it issued, the
\* outcome of the primary fetch and of the rewrite, the fact or payload fetched,
\* how the call ended, and whether its context was cancelled during a request
NoCall == [start |-> 0, reqs |-> <<>>, raw |-> "none", ai |-> "none",
           fact |-> <<>>, payload |-> <<>>, result |-> "none", cancelled |-> FALSE]

----------------------------------------------------------------------------
(* widgetBase: the host's hooks *)

\* withError(err): the error is kept on the widget for display
withError(err) == Error' = err

\* scheduleEarlyUpdate(): the host is asked for an earlier-than-normal retry
scheduleEarlyUpdate == earlyUpdates' = earlyUpdates + 1 /\ nextUpdates' = nextUpdates

\* scheduleNextUpdate(): the host is asked for the next regular update
scheduleNextUpdate == nextUpdates' = nextUpdates + 1 /\ earlyUpdates' = earlyUpdates

\* renderTemplate(data, template): the fragment shows the template's name, the
\* cached data and timestamp handed to it, and the widget's error
renderTemplate(tpl, data, stamp, avail, error) ==
    <<[tpl |-> tpl, data |-> data, stamp |-> stamp, avail |-> avail, error |-> error]>>

\* the host calls update and Render of an initialized widget one at a time:
\* no update while one is running, and no Render during an update
hostSerializes == pc = "idle"

\* the host starts an update call: a fresh context, and the call's history
BeginCall ==
    /\ callNo' = callNo + 1
    /\ earlyUpdates' = 0
    /\ nextUpdates' = 0
    /\ rendered' = <<>>

----------------------------------------------------------------------------
(* randomFactWidget *)

\* hasAIConfig testing the key alone
hasAIConfigKeyOnly == APIKey # ""

\* hasAIConfig without the test of the model identifier
hasAIConfigNoModel == APIKey # "" /\ APIURL # ""

\* update(), line 110
hasAIConfig == APIKey # "" /\ Model # <<>> /\ APIURL # ""

RECURSIVE extractScan(_, _)
extractScan(m, i) ==
    IF i < 1 THEN m
    ELSE IF m[i] = "/" THEN SubSeq(m, i + 1, Len(m))
    ELSE extractScan(m, i - 1)

extractModelName(m) ==
    IF Len(m) = 0 THEN <<"unknown">> ELSE extractScan(m, Len(m))

TriviaHost == <<"uselessfacts.jsph.pl">>

InitFact ==
    /\ inst = "fact"
    /\ \E c \in FactConfigs :
          APIKey = c.APIKey /\ Model = c.Model /\ APIURL = c.APIURL
    /\ CustomCacheDuration \in CacheDurationVals
    /\ ShowCount = 0 /\ Limit = 0 /\ Category = "" /\ RefreshInterval = 0

InitCommon ==
    /\ pc = "new"
    /\ now = 0
    /\ net = {}
    /\ ctx = "none"
    /\ Title = ""
    /\ ContentAvailable = FALSE
    /\ Error = ""
    /\ cacheDuration = 0
    /\ earlyUpdates = 0
    /\ nextUpdates = 0
    /\ CachedData = <<>>
    /\ lastUpdate = 0
    /\ rawFact = <<>>
    /\ HotSearches = <<>>
    /\ LastUpdated = 0
    /\ callNo = 0
    /\ cur = NoCall
    /\ dataGen = 0
    /\ tsGen = 0
    /\ rendered = <<>>

\* initialize(), lines 69-91
FactInitialize ==
    /\ inst = "fact"
    /\ pc = "new"
    /\ Title' = "Random Fact"
    /\ IF CustomCacheDuration = 0
       THEN /\ CustomCacheDuration' = defaultFactCacheDuration
            /\ cacheDuration' = defaultFactCacheDuration
       ELSE /\ CustomCacheDuration' = CustomCacheDuration
            /\ cacheDuration' = CustomCacheDuration
    /\ pc' = "idle"
    /\ rendered' = <<>>
    /\ UNCHANGED <<inst, now, net, ctx, ContentAvailable, Error, earlyUpdates,
                   nextUpdates, factCfg, factData, rawFact, weiboCfg, weiboData,
                   callNo, cur, dataGen, tsGen>>

\* cacheFresh with the comparison reversed
cacheFreshReversed ==
    CachedData # <<>> /\ now - lastUpdate > CustomCacheDuration

\* update(), line 97: the cached record is still fresh
cacheFresh ==
    CachedData # <<>> /\ now - lastUpdate < CustomCacheDuration

\* update(), lines 130-135: the record built from the fetched fact
newFactData(f, processedContent, source) ==
    [FactID |-> f.ID, FactText |-> f.Text, Content |-> processedContent,
     Source |-> source]

\* update(), lines 94-102, and fetchRawFact up to client.Do, lines 141-147
FactUpdate ==
    /\ inst = "fact"
    /\ hostSerializes
    /\ callNo < MaxUpdates
    /\ BeginCall
    /\ IF cacheFresh
       THEN /\ cur' = [NoCall EXCEPT !.start = now, !.result = "noop"]
            /\ UNCHANGED <<pc, net, ctx>>
       ELSE /\ cur' = [NoCall EXCEPT !.start = now, !.reqs = <<"trivia">>,
                                      !.result = "running"]
            /\ net' = net \cup {"trivia"}
            /\ ctx' = "live"
            /\ pc' = "fetchRawFact"
    /\ UNCHANGED <<inst, now, baseVars, factCfg, factData, rawFact, weiboCfg,
                   weiboData, dataGen, tsGen>>

\* FactFetchFailed dropping the cached record as well
FactFetchFailedDropsCache(err) ==
    /\ withError(err)
    /\ scheduleEarlyUpdate
    /\ pc' = "idle"
    /\ ctx' = "none"
    /\ cur' = [cur EXCEPT !.raw = err, !.result = "failed"]
    /\ net' = net \ {"trivia"}
    /\ CachedData' = <<>>
    /\ UNCHANGED <<lastUpdate, rawFact, dataGen>>

\* fetchRawFact fails, lines 147-160, and update() handles it, lines 103-107
FactFetchFailed(err) ==
    /\ withError(err)
    /\ scheduleEarlyUpdate
    /\ pc' = "idle"
    /\ ctx' = "none"
    /\ cur' = [cur EXCEPT !.raw = err, !.result = "failed"]
    /\ net' = net \ {"trivia"}
    /\ UNCHANGED <<factData, rawFact, dataGen>>

\* fetchRawFact returns a fact and AI rewriting is configured:
\* update() lines 110-117 and processWithAI up to client.Do, lines 166-288
FactStartRewrite(f) ==
    /\ rawFact' = <<f>>
    /\ net' = (net \ {"trivia"}) \cup {"rewrite"}
    /\ pc' = "processWithAI"
    /\ cur' = [cur EXCEPT !.raw = "ok", !.fact = <<f>>,
                          !.reqs = Append(cur.reqs, "rewrite")]
    /\ UNCHANGED <<Error, earlyUpdates, nextUpdates, factData, dataGen, ctx>>

\* fetchRawFact returns a fact and AI rewriting is not configured:
\* update() lines 123-135
FactStoreRaw(f) ==
    /\ CachedData' = <<newFactData(f, f.Text, TriviaHost)>>
    /\ dataGen' = callNo
    /\ pc' = "factL136"
    /\ cur' = [cur EXCEPT !.raw = "ok", !.fact = <<f>>]
    /\ net' = net \ {"trivia"}
    /\ UNCHANGED <<Error, earlyUpdates, nextUpdates, lastUpdate, rawFact, ctx>>

\* the trivia request completes: fetchRawFact lines 147-162, update() lines 102-135
FactRawReply ==
    /\ inst = "fact"
    /\ pc = "fetchRawFact"
    /\ "trivia" \in net
    /\ \/ \E err \in FactFetchErrors : FactFetchFailed(err)
       \/ \E f \in Facts :
             IF hasAIConfig THEN FactStartRewrite(f) ELSE FactStoreRaw(f)
    /\ rendered' = <<>>
    /\ UNCHANGED <<inst, now, Title, ContentAvailable, CustomCacheDuration,
                   cacheDuration, factCfg, weiboCfg, weiboData, callNo, tsGen>>

\* FactStoreRewritten without the fallback to the raw text
FactStoreRewrittenNoFallback(aiErr, content) ==
    LET f == rawFact[1]
        source == extractModelName(Model)
    IN  /\ CachedData' = <<newFactData(f, content, source)>>
        /\ dataGen' = callNo
        /\ pc' = "factL136"
        /\ rawFact' = <<>>
        /\ net' = net \ {"rewrite"}
        /\ cur' = [cur EXCEPT !.ai = IF aiErr # "" THEN aiErr ELSE "ok"]

\* the rewrite request completes: processWithAI lines 288-311, update() lines 117-135.
\* aiErr is the error of processWithAI ("" for none), content the first choice
FactStoreRewritten(aiErr, content) ==
    LET f == rawFact[1]
        processedContent == IF aiErr # "" THEN f.Text ELSE content
        source == extractModelName(Model)
    IN  /\ CachedData' = <<newFactData(f, processedContent, source)>>
        /\ dataGen' = callNo
        /\ pc' = "factL136"
        /\ rawFact' = <<>>
        /\ net' = net \ {"rewrite"}
        /\ cur' = [cur EXCEPT !.ai = IF aiErr # "" THEN aiErr ELSE "ok"]

FactAIReply ==
    /\ inst = "fact"
    /\ pc = "processWithAI"
    /\ "rewrite" \in net
    /\ \/ \E err \in AIErrors : FactStoreRewritten(err, "")
       \/ \E content \in AIContents(rawFact[1].Text) : FactStoreRewritten("", content)
    /\ rendered' = <<>>
    /\ UNCHANGED <<inst, now, ctx, baseVars, earlyUpdates, nextUpdates, factCfg,
                   lastUpdate, weiboCfg, weiboData, callNo, tsGen>>

\* FactStamp returning before the timestamp is assigned
FactStampNoTimestamp ==
    /\ inst = "fact"
    /\ pc = "factL136"
    /\ scheduleNextUpdate
    /\ pc' = "idle"
    /\ ctx' = "none"
    /\ cur' = [cur EXCEPT !.result = "ok"]
    /\ rendered' = <<>>
    /\ UNCHANGED <<inst, now, net, baseVars, factCfg, CachedData, lastUpdate, rawFact,
                   weiboCfg, weiboData, callNo, dataGen, tsGen>>

\* update(), lines 136-137
FactStamp ==
    /\ inst = "fact"
    /\ pc = "factL136"
    /\ lastUpdate' = now
    /\ tsGen' = callNo
    /\ scheduleNextUpdate
    /\ pc' = "idle"
    /\ ctx' = "none"
    /\ cur' = [cur EXCEPT !.result = "ok"]
    /\ rendered' = <<>>
    /\ UNCHANGED <<inst, now, net, baseVars, factCfg, CachedData, rawFact,
                   weiboCfg, weiboData, callNo, dataGen>>

\* Render(), lines 332-342
FactRender ==
    /\ inst = "fact"
    /\ hostSerializes
    /\ IF CachedData = <<>>
       THEN /\ ContentAvailable' = FALSE
            /\ withError("no data available")
            /\ rendered' = renderTemplate("widget-base.html", <<>>, lastUpdate,
                                         FALSE, "no data available")
       ELSE /\ ContentAvailable' = TRUE
            /\ Error' = Error
            /\ rendered' = renderTemplate("random-fact.html", CachedData, lastUpdate,
                                         TRUE, Error)
    /\ UNCHANGED <<inst, pc, now, net, ctx, Title, CustomCacheDuration, cacheDuration,
                   earlyUpdates, nextUpdates, factCfg, factData, rawFact, weiboCfg,
                   weiboData, callNo, cur, dataGen, tsGen>>

----------------------------------------------------------------------------
(* weiboWidget *)

\* limitOverrides testing for a non-zero limit
limitOverridesNonZero == Limit # 0

\* initialize(), lines 98-100: an explicit limit replaces show-count
limitOverrides == Limit > 0

\* initialize(), lines 98-107: the display count after normalisation
normalizedShowCount ==
    LET afterLimit == IF limitOverrides THEN Limit ELSE ShowCount
        afterFloor == IF afterLimit <= 0 THEN DefaultShowCount ELSE afterLimit
    IN  IF afterFloor > MaxShowCount THEN MaxShowCount ELSE afterFloor

\* initialize(), lines 94-120
WeiboInitialize ==
    /\ inst = "weibo"
    /\ pc = "new"
    /\ Title' = "Weibo HotSearch"
    /\ ShowCount' = normalizedShowCount
    /\ RefreshInterval' =
          IF RefreshInterval <= 0 THEN DefaultRefreshInterval ELSE RefreshInterval
    /\ cacheDuration' = RefreshInterval'
    /\ ContentAvailable' = TRUE
    /\ pc' = "idle"
    /\ rendered' = <<>>
    /\ UNCHANGED <<inst, now, net, ctx, Error, CustomCacheDuration, earlyUpdates,
                   nextUpdates, factCfg, factData, rawFact, Limit, Category,
                   weiboData, callNo, cur, dataGen, tsGen>>

\* url.QueryEscape on the characters of WordChars: a letter stays, a space
\* becomes "+", any other byte becomes "%" and its two upper-case hex digits
ByteOf(c) == CASE c = "a" -> 97 [] c = " " -> 32 [] c = "#" -> 35
HexDigit(n) == <<"0", "1", "2", "3", "4", "5", "6", "7", "8", "9",
                 "A", "B", "C", "D", "E", "F">>[n + 1]

RECURSIVE QueryEscape(_)
QueryEscape(str) ==
    IF str = <<>> THEN <<>>
    ELSE LET c == Head(str)
             esc == IF c = "a" THEN <<c>>
                    ELSE IF c = " " THEN <<"+">>
                    ELSE <<"%", HexDigit(ByteOf(c) \div 16), HexDigit(ByteOf(c) % 16)>>
         IN  esc \o QueryEscape(Tail(str))

\* filterLoop leaving the loop at the first entry of another category
RECURSIVE filterLoopBreaks(_, _, _)
filterLoopBreaks(allItems, i, filteredHotSearches) ==
    IF i > Len(allItems) THEN filteredHotSearches
    ELSE LET item == allItems[i] IN
         IF item.Word # ""
         THEN IF Category # "" /\ item.LabelName # Category
              THEN filteredHotSearches
              ELSE filterLoopBreaks(allItems, i + 1, Append(filteredHotSearches, item))
         ELSE filterLoopBreaks(allItems, i + 1, filteredHotSearches)

\* fetchWeiboHotSearch, lines 194-203: the filter loop
RECURSIVE filterLoop(_, _, _)
filterLoop(allItems, i, filteredHotSearches) ==
    IF i > Len(allItems) THEN filteredHotSearches
    ELSE LET item == allItems[i] IN
         IF item.Word # ""
         THEN IF Category # "" /\ item.LabelName # Category
              THEN filterLoop(allItems, i + 1, filteredHotSearches)
              ELSE filterLoop(allItems, i + 1, Append(filteredHotSearches, item))
         ELSE filterLoop(allItems, i + 1, filteredHotSearches)

\* fetchWeiboHotSearch, lines 206-208: the limit
applyLimit(filteredHotSearches) ==
    IF ShowCount > 0 /\ Len(filteredHotSearches) > ShowCount
    THEN SubSeq(filteredHotSearches, 1, ShowCount)
    ELSE filteredHotSearches

\* fetchWeiboHotSearch, lines 211-224: each entry with its search URL
RECURSIVE withURL(_)
withURL(filteredHotSearches) ==
    IF filteredHotSearches = <<>> THEN <<>>
    ELSE LET item == Head(filteredHotSearches)
             searchURL == <<"https://s.weibo.com/weibo?q=">> \o QueryEscape(item.WordScheme)
         IN  <<[item |-> item, URL |-> searchURL]>> \o withURL(Tail(filteredHotSearches))

\* fetchWeiboHotSearch, lines 188-226, for a payload whose ok flag is 1
hotSearchesOf(payload) ==
    LET allItems == payload.realtime \o payload.hotgovs
    IN  withURL(applyLimit(filterLoop(allItems, 1, <<>>)))

\* update(), line 124, and fetchWeiboHotSearch up to client.Do, lines 139-160
WeiboUpdate ==
    /\ inst = "weibo"
    /\ hostSerializes
    /\ callNo < MaxUpdates
    /\ BeginCall
    /\ cur' = [NoCall EXCEPT !.start = now, !.reqs = <<"weibo">>, !.result = "running"]
    /\ net' = net \cup {"weibo"}
    /\ ctx' = "live"
    /\ pc' = "fetchWeiboHotSearch"
    /\ UNCHANGED <<inst, now, baseVars, factCfg, factData, rawFact, weiboCfg,
                   weiboData, dataGen, tsGen>>

\* fetchWeiboHotSearch fails, lines 160-186, and update() handles it, lines 125-128
WeiboFetchFailed(err) ==
    /\ withError(err)
    /\ scheduleEarlyUpdate
    /\ pc' = "idle"
    /\ ctx' = "none"
    /\ cur' = [cur EXCEPT !.raw = err, !.result = "failed"]
    /\ UNCHANGED <<weiboData, dataGen>>

\* fetchWeiboHotSearch returns the list, lines 188-226, and update() line 130
WeiboStore(payload) ==
    /\ HotSearches' = hotSearchesOf(payload)
    /\ dataGen' = callNo
    /\ pc' = "weiboL131"
    /\ cur' = [cur EXCEPT !.raw = "ok", !.payload = <<payload>>]
    /\ UNCHANGED <<Error, earlyUpdates, nextUpdates, LastUpdated, ctx>>

\* the hot-search request completes. A request whose context was cancelled
\* returns an error from client.Do or from reading the body.
WeiboReplyWith(payloads) ==
    /\ inst = "weibo"
    /\ pc = "fetchWeiboHotSearch"
    /\ "weibo" \in net
    /\ net' = net \ {"weibo"}
    /\ \/ \E err \in (IF ctx = "cancelled" THEN CancelErrors ELSE WeiboFetchErrors) :
             WeiboFetchFailed(err)
       \/ /\ ctx # "cancelled"
          /\ \E payload \in payloads : WeiboStore(payload)
    /\ rendered' = <<>>
    /\ UNCHANGED <<inst, now, Title, ContentAvailable, CustomCacheDuration,
                   cacheDuration, factCfg, factData, rawFact, weiboCfg, callNo, tsGen>>

WeiboReply == WeiboReplyWith(SamplePayloads)

\* the same step, for every payload
WeiboReplyAny == WeiboReplyWith(Payloads)

\* update(), line 131
WeiboStamp ==
    /\ inst = "weibo"
    /\ pc = "weiboL131"
    /\ LastUpdated' = now
    /\ tsGen' = callNo
    /\ pc' = "idle"
    /\ ctx' = "none"
    /\ cur' = [cur EXCEPT !.result = "ok", !.payload = <<>>]
    /\ rendered' = <<>>
    /\ UNCHANGED <<inst, now, net, baseVars, earlyUpdates, nextUpdates, factCfg,
                   factData, rawFact, weiboCfg, HotSearches, callNo, dataGen>>

\* Render(), lines 134-136
WeiboRender ==
    /\ inst = "weibo"
    /\ hostSerializes
    /\ rendered' = renderTemplate("weibo.html", HotSearches, LastUpdated,
                                  ContentAvailable, Error)
    /\ UNCHANGED <<inst, pc, now, net, ctx, baseVars, earlyUpdates, nextUpdates,
                   factCfg, factData, rawFact, weiboCfg, weiboData, callNo, cur,
                   dataGen, tsGen>>

InitWeiboWith(limits, showCounts, categories, intervals) ==
    /\ inst = "weibo"
    /\ Limit \in limits
    /\ ShowCount \in showCounts
    /\ Category \in categories
    /\ RefreshInterval \in intervals
    /\ APIKey = "" /\ Model = <<>> /\ APIURL = ""
    /\ CustomCacheDuration = 0

InitWeibo == InitWeiboWith(LimitVals, ShowCountVals, CategoryVals, {0})

----------------------------------------------------------------------------
(* The environment *)

\* time passes
Tick ==
    /\ now < MaxTime
    /\ now' = now + 1
    /\ rendered' = <<>>
    /\ UNCHANGED <<inst, pc, net, ctx, baseVars, earlyUpdates, nextUpdates, factCfg,
                   factData, rawFact, weiboCfg, weiboData, callNo, cur,
                   dataGen, tsGen>>

\* the host cancels the context of the running update while a request is in flight
Cancel ==
    /\ net # {}
    /\ ctx = "live"
    /\ ctx' = "cancelled"
    /\ cur' = [cur EXCEPT !.cancelled = TRUE]
    /\ rendered' = <<>>
    /\ UNCHANGED <<inst, pc, now, net, baseVars, earlyUpdates, nextUpdates, factCfg,
                   factData, rawFact, weiboCfg, weiboData, callNo, dataGen, tsGen>>

Init == InitCommon /\ (InitFact \/ InitWeibo)
Next ==
    \/ FactInitialize \/ FactUpdate \/ FactRawReply \/ FactAIReply \/ FactStamp
    \/ FactRender
    \/ WeiboInitialize \/ WeiboUpdate \/ WeiboReply \/ WeiboStamp \/ WeiboRender
    \/ Tick \/ Cancel
Spec == Init /\ [][Next]_vars

\* initialize of the hot-search widget over the whole range of configured counts
InitConfigured ==
    InitCommon /\ InitWeiboWith(ConfiguredCounts, ConfiguredCounts, {""}, IntervalVals)
SpecInitialize == InitConfigured /\ [][WeiboInitialize]_vars

\* the first fetch of the hot-search widget, for every configuration and payload
InitFetch ==
    InitCommon /\ InitWeiboWith(LimitVals, ShowCountVals \cup {0 - 1, 51}, CategoryVals, {0})
NextFetch == WeiboInitialize \/ WeiboUpdate \/ WeiboReplyAny
SpecFetch == InitFetch /\ [][NextFetch]_vars
----------------------------------------------------------------------------
(* The properties *)

\* a step in which the host calls update of the fact widget
FactCallStep == inst = "fact" /\ callNo' = callNo + 1

\* the number of trivia requests among the requests of a call
TriviaFetches(reqs) == Cardinality({i \in 1..Len(reqs) : reqs[i] = "trivia"})

\* the call that starts in this step returns at once, issues no request, changes
\* nothing, and the two calls together made exactly one trivia request
SecondCallIsNoOp ==
    /\ pc' = "idle"
    /\ cur'.reqs = <<>>
    /\ net' = net
    /\ UNCHANGED <<CachedData, lastUpdate, Error>>
    /\ TriviaFetches(cur.reqs) + TriviaFetches(cur'.reqs) = 1

\* C1, as stated: whenever update is called a second time less than the cache
\* duration after the first call, the second call is a no-op and exactly one
\* trivia fetch was made in total.
C1_AnySecondCallInWindowIsNoOp ==
    [][(FactCallStep /\ callNo >= 1 /\ now - cur.start < CustomCacheDuration)
          => SecondCallIsNoOp]_vars

\* C1, amended: when the first call fetched a fact and cached a record, a second
\* call less than the cache duration after the first issues no request and leaves
\* the cached record, the timestamp and the stored error unchanged, so exactly
\* one trivia fetch was made in total.
C1_SecondCallAfterSuccessIsNoOp ==
    [][(FactCallStep /\ cur.result = "ok" /\ now - cur.start < CustomCacheDuration)
          => SecondCallIsNoOp]_vars

C1_Witness ==
    inst = "fact" /\ callNo = 2 /\ cur.result = "noop" /\ CachedData # <<>>

\* the suffix of a model identifier after its last "/": the one suffix that holds
\* no "/" and is either the whole identifier or preceded by a "/"
NoSlash(s) == \A i \in 1..Len(s) : s[i] # "/"
SuffixAfterLastSlash(m) ==
    CHOOSE s \in {SubSeq(m, k, Len(m)) : k \in 1..(Len(m) + 1)} :
        /\ NoSlash(s)
        /\ Len(s) = Len(m) \/ m[Len(m) - Len(s)] = "/"

RewriteFailed == inst = "fact" /\ cur.raw = "ok" /\ cur.ai \in AIErrors

\* C2: with AI rewriting configured, when the raw fetch succeeds and the rewrite
\* fails for any reason, update succeeds: the cached record is replaced by one
\* whose Content is the raw text and whose Source is the model identifier's
\* suffix after the last "/", the timestamp is updated, scheduleNextUpdate is
\* signalled, no error is recorded and no early retry is requested.
C2_RewriteFailureFallsBack ==
    /\ [](RewriteFailed /\ pc = "idle" =>
            LET f == cur.fact[1] IN
            /\ cur.result = "ok"
            /\ CachedData = <<[FactID |-> f.ID, FactText |-> f.Text,
                               Content |-> f.Text,
                               Source |-> SuffixAfterLastSlash(Model)]>>
            /\ dataGen = callNo
            /\ tsGen = callNo
            /\ lastUpdate \in cur.start..now
            /\ nextUpdates = 1
            /\ earlyUpdates = 0)
    /\ [][(inst = "fact" /\ pc # "idle" /\ cur'.ai \in AIErrors)
             => Error' = Error /\ earlyUpdates' = 0]_vars

C2_Witness ==
    /\ RewriteFailed /\ pc = "idle"
    /\ cur.ai = "status code"
    /\ Model = <<"/", "q">>
    /\ CachedData[1].Source = <<"q">>

\* the primary fetch of the running update fails in this step
PrimaryFetchFails ==
    cur.raw = "none" /\ cur'.raw \in FactFetchErrors \cup WeiboFetchErrors

\* C3: for both widgets, an update whose primary fetch fails stores the error,
\* requests an early retry exactly once, does not signal a regular next update,
\* and leaves the cached data and its timestamp unchanged.
C3_FailedFetchKeepsCache ==
    /\ [][PrimaryFetchFails =>
            /\ pc' = "idle"
            /\ Error' = cur'.raw
            /\ earlyUpdates' = 1
            /\ nextUpdates' = 0
            /\ UNCHANGED <<CachedData, lastUpdate, HotSearches, LastUpdated>>]_vars
    /\ [](pc = "idle" /\ cur.result = "failed" => earlyUpdates = 1 /\ nextUpdates = 0)

C3_Witness ==
    /\ inst = "fact" /\ pc = "idle" /\ callNo = 2
    /\ cur.result = "failed" /\ Error = "decode error"
    /\ CachedData # <<>> /\ dataGen = 1

\* C4: every Render of the fact widget obeys the render contract: without a
\* cached record it marks no content available and records "no data available";
\* with a cached record it marks content available, renders the populated
\* template with that record, and the widget carries no error.
C4_RenderContract ==
    (inst = "fact" /\ rendered # <<>>) =>
        IF CachedData = <<>>
        THEN /\ ~ContentAvailable
             /\ Error = "no data available"
             /\ rendered[1].tpl = "widget-base.html"
        ELSE /\ ContentAvailable
             /\ rendered[1].tpl = "random-fact.html"
             /\ rendered[1].data = CachedData
             /\ Error = ""

C6_CancelFailsUpdate ==
    (pc = "idle" /\ cur.cancelled) =>
        /\ cur.result = "failed"
        /\ earlyUpdates = 1
        /\ dataGen # callNo

\* an entry survives the filter
Survives(item) ==
    item.Word # "" /\ (Category # "" => item.LabelName = Category)
Take(s, n) == SubSeq(s, 1, Min(n, Len(s)))
FetchedItems == [i \in 1..Len(HotSearches) |-> HotSearches[i].item]
AllWordsNonEmpty(s) == \A i \in 1..Len(s) : s[i].Word # ""

\* C7: the result of the fetch is the first effective-count elements of the
\* order-preserving filter of realtime entries followed by government entries;
\* with no filter and all words non-empty it has min(N+M, effective-count) items,
\* realtime items first.
C7_FetchFiltersAndTruncates ==
    (inst = "weibo" /\ cur.raw = "ok" /\ cur.payload # <<>>) =>
        LET p == cur.payload[1]
            all == p.realtime \o p.hotgovs
        IN  /\ FetchedItems = Take(SelectSeq(all, Survives), ShowCount)
            /\ (Category = "" /\ AllWordsNonEmpty(all)) =>
                  /\ Len(HotSearches) = Min(Len(p.realtime) + Len(p.hotgovs), ShowCount)
                  /\ \A i \in 1..Len(HotSearches) : FetchedItems[i] = all[i]

C7_Witness ==
    /\ inst = "weibo" /\ cur.raw = "ok" /\ cur.payload # <<>>
    /\ Category = "A"
    /\ cur.payload[1].realtime = <<ItemY, ItemX>>
    /\ Len(SelectSeq(cur.payload[1].realtime \o cur.payload[1].hotgovs, Survives)) > ShowCount
    /\ Len(HotSearches) = ShowCount

AINotConfigured == APIKey = "" \/ Model = <<>> \/ APIURL = ""

\* C8: without AI configuration, when the raw fetch succeeds, update issues no
\* rewrite request and the cached record has the trivia host as Source, the raw
\* text as Content, and FactID and FactText of the fetched fact.
C8_NoAIUsesRawFact ==
    (inst = "fact" /\ AINotConfigured) =>
        /\ "rewrite" \notin net
        /\ pc # "processWithAI"
        /\ (pc = "idle" /\ cur.raw = "ok") =>
              LET f == cur.fact[1] IN
              /\ cur.result = "ok"
              /\ cur.reqs = <<"trivia">>
              /\ CachedData = <<[FactID |-> f.ID, FactText |-> f.Text,
                                 Content |-> f.Text,
                                 Source |-> <<"uselessfacts.jsph.pl">>]>>

C8_Witness ==
    /\ inst = "fact" /\ pc = "idle" /\ cur.result = "ok"
    /\ APIKey # "" /\ APIURL # "" /\ Model = <<>>
    /\ CachedData[1].FactID = "id2"

\* the effective count the claim gives for a configured limit and show-count
ClaimedCount(limit, showCount) ==
    LET v == IF limit > 0 THEN limit ELSE showCount
    IN  IF v <= 0 THEN 10 ELSE IF v > 50 THEN 50 ELSE v

\* C9: initialize substitutes a set limit for show-count, then yields 10 for a
\* value <= 0, 50 for a value > 50 and the value otherwise; the effective count
\* lies in 1..50 and initialize never fails.
C9_InitializeClampsCount ==
    /\ [][(inst = "weibo" /\ pc = "new" /\ pc' # "new")
             => ShowCount' = ClaimedCount(Limit, ShowCount)]_vars
    /\ []((inst = "weibo" /\ pc # "new") => ShowCount \in 1..50)
    /\ []((inst = "weibo" /\ pc = "new") => ENABLED WeiboInitialize)

C9_Witness ==
    inst = "weibo" /\ pc = "idle" /\ Limit = 51 /\ ShowCount = 50

\* C10: an update makes at most two requests, one after the other: the
\* hot-search update exactly one; the fact update none when the cache is fresh,
\* otherwise one trivia request and then at most one rewrite request, issued
\* only after the trivia fetch succeeded and only with AI rewriting configured.
C10_RequestsAreSequential ==
    /\ [](/\ Cardinality(net) <= 1
          /\ Len(cur.reqs) <= 2
          /\ net # {} => net = {cur.reqs[Len(cur.reqs)]}
          /\ (inst = "weibo" /\ callNo > 0) => cur.reqs = <<"weibo">>
          /\ inst = "fact" =>
                /\ cur.reqs \in {<<>>, <<"trivia">>, <<"trivia", "rewrite">>}
                /\ Len(cur.reqs) = 2 => cur.raw = "ok" /\ ~AINotConfigured)
    /\ [][FactCallStep =>
             ((cur'.reqs = <<>>) <=>
                 (CachedData # <<>> /\ now - lastUpdate < CustomCacheDuration))]_vars

C10_Witness ==
    inst = "fact" /\ pc = "idle" /\ cur.reqs = <<"trivia", "rewrite">> /\ callNo = 2
====
